---- MODULE Spec2Model ----
(***************************************************************************)
(* Cross-word hint relation engine of the Wordle opening analysis          *)
(* (src/src/wordle/main_wordle_openings_frequentist.py).                   *)
(*                                                                         *)
(* A pool of N words of length L is turned into an N x N x 2L hint matrix  *)
(* by one of five builders, and an opening (a list of pool indices) is     *)
(* scored against that matrix by one of four evaluators.                   *)
(*                                                                         *)
(* Indices are 1-based here: pool index i of the code is i+1, slot p of a  *)
(* matrix cell is p+1, so the position section is 1..L and the             *)
(* intersection section is L+1..2L.                                        *)
(*                                                                         *)
(* Spec carries the sequential build and evaluate calls.  The other        *)
(* specifications follow one path each: SpecTampered a matrix altered      *)
(* between the calls, SpecIndexed index lists of any kind, SpecConstruct   *)
(* the encoding of a word list, SpecThreeLetterWords the pool of           *)
(* test_three_letter_words, SpecParallelBuild and SpecParallelEvaluate     *)
(* the prange kernels with their iterations interleaved.                   *)
(***************************************************************************)
EXTENDS Integers, Sequences, FiniteSets, TLC

\* L = words_array.shape[1], the word length every function reads off the
\* shape of the pool it is given
VARIABLE L

\* ---------------------------------------------------------------- bounds
\* word length of the generated pools
WordLength == 2
\* number of letters of the alphabet in use, starting at 'A'
NumLetters == 2
\* largest pool size N explored (words_array.shape[0])
MaxN == 3
\* longest opening selection explored
MaxOpenings == 2

\* ord('A')
OrdA == 65
\* ord('Z'), the last letter of the alphabet the masks are sized for
OrdZ == 90
Letters == OrdA .. (OrdA + NumLetters - 1)
Words == [1..WordLength -> Letters]
Pools == UNION {[1..n -> Words] : n \in 0..MaxN}

BuilderTiers == {"original", "optimized", "fast", "numba", "numba_parallel"}
EvaluatorTiers == {"original", "optimized", "numba", "numba_parallel"}

\* ------------------------------------------------------- generic helpers
Min(a, b) == IF a < b THEN a ELSE b
Max(a, b) == IF a > b THEN a ELSE b

\* set(word): the letters occurring in a word
LetterSet(w) == {w[p] : p \in 1..Len(w)}

\* the letters occurring in a pool
PoolLetters(words_array) == UNION {LetterSet(words_array[i]) : i \in 1..Len(words_array)}

\* all enumerations without repetition of a finite set
Orderings(S) == {s \in [1..Cardinality(S) -> S] : \A a, b \in 1..Cardinality(S) : a # b => s[a] # s[b]}

\* sorted(S) for a set of byte values
RECURSIVE sorted(_)
sorted(S) ==
    IF S = {} THEN <<>>
    ELSE LET m == CHOOSE x \in S : \A y \in S : x <= y
         IN <<m>> \o sorted(S \ {m})

\* the elements of S in the iteration order given by the enumeration ord
InOrder(S, ord) == SelectSeq(ord, LAMBDA x : x \in S)

\* set(row) - {0} for a row of slots
NonZero(row) == {row[s] : s \in 1..Len(row)} \ {0}

\* zeros allocating one row and column for the empty pool
zeros_at_least_one(N) == [c \in (1..Max(N, 1)) \X (1..Max(N, 1)) \X (1..(2*L)) |-> 0]

\* np.zeros((N, N, 2*L), dtype=np.uint8)
zeros(N) == [c \in (1..N) \X (1..N) \X (1..(2*L)) |-> 0]

\* hints_matrix[i, j, base+1 .. base+len(vals)] = vals, one slot at a time
RECURSIVE WriteSlots(_, _, _, _, _)
WriteSlots(hm, i, j, base, vals) ==
    IF vals = <<>> THEN hm
    ELSE WriteSlots([hm EXCEPT ![<<i, j, base + 1>>] = Head(vals)], i, j, base + 1, Tail(vals))

\* hints_matrix[i, j]: the 2L slots of one cell as a sequence
Cell(hm, i, j) == [s \in 1..(2*L) |-> hm[<<i, j, s>>]]
PosSection(hm, i, j) == [s \in 1..L |-> hm[<<i, j, s>>]]
LetterSection(hm, i, j) == [s \in 1..L |-> hm[<<i, j, L + s>>]]

\* ------------------------------------------------------------- builders
\* WritePos without the equality test: every slot of the cell gets the
\* letter of word_i
WritePos_unconditional(hm, a, b, word_i, word_j) ==
    [c \in DOMAIN hm |->
        IF c[1] = a /\ c[2] = b /\ c[3] <= L THEN word_i[c[3]] ELSE hm[c]]

\* lines 32-36 / 136-139: for every pos with word_i[pos] == word_j[pos],
\* hints_matrix[a, b, pos] = word_i[pos]; other slots are left alone
WritePos(hm, a, b, word_i, word_j) ==
    [c \in DOMAIN hm |->
        IF c[1] = a /\ c[2] = b /\ c[3] <= L /\ word_i[c[3]] = word_j[c[3]]
        THEN word_i[c[3]] ELSE hm[c]]

\* original_pair storing the union of the two letter sets
original_pair_union(hm, words_array, i, j, set_order) ==
    LET word_i == words_array[i]
        word_j == words_array[j]
        common_letters == InOrder(LetterSet(word_i) \cup LetterSet(word_j), set_order)
        h1 == WritePos(WritePos(hm, i, j, word_i, word_j), j, i, word_i, word_j)
    IN  WriteSlots(WriteSlots(h1, i, j, L, SubSeq(common_letters, 1, Min(L, Len(common_letters)))),
                   j, i, L, SubSeq(common_letters, 1, Min(L, Len(common_letters))))

\* body of the pair loop of the reference builder; set_order is the
\* iteration order of Python's set type, which the language leaves open
original_pair(hm, words_array, i, j, set_order) ==
    LET word_i == words_array[i]
        word_j == words_array[j]
        common_letters == InOrder(LetterSet(word_i) \cap LetterSet(word_j), set_order)
        h1 == WritePos(WritePos(hm, i, j, word_i, word_j), j, i, word_i, word_j)
    IN  WriteSlots(WriteSlots(h1, i, j, L, common_letters), j, i, L, common_letters)

RECURSIVE original_loop_j(_, _, _, _, _)
original_loop_j(hm, words_array, i, j, set_order) ==
    IF j > Len(words_array) THEN hm
    ELSE original_loop_j(original_pair(hm, words_array, i, j, set_order),
                         words_array, i, j + 1, set_order)

RECURSIVE original_loop_i(_, _, _, _)
original_loop_i(hm, words_array, i, set_order) ==
    IF i > Len(words_array) THEN hm
    ELSE original_loop_i(original_loop_j(hm, words_array, i, i, set_order),
                         words_array, i + 1, set_order)

compute_cross_hints_matrix(words_array, set_order) ==
    original_loop_i(zeros(Len(words_array)), words_array, 1, set_order)

\* broadcast_positions without the position_matches mask of np.where
broadcast_positions_unmasked(hm, words_array) ==
    [c \in DOMAIN hm |-> IF c[3] <= L THEN words_array[c[1]][c[3]] ELSE hm[c]]

\* hints_matrix[:, :, :L] = np.where(position_matches, words_array[:, None, :], 0)
broadcast_positions(hm, words_array) ==
    [c \in DOMAIN hm |->
        IF c[3] <= L
        THEN (IF words_array[c[1]][c[3]] = words_array[c[2]][c[3]]
              THEN words_array[c[1]][c[3]] ELSE 0)
        ELSE hm[c]]

\* presence[i, c] = 1 for every byte c of word i; the 256-wide 0/1 row is
\* kept as the set of bytes whose entry is 1
presence_row(words_array, i) == {words_array[i][pos] : pos \in 1..L}

\* optimized_pair packing one letter fewer than the cell can hold
optimized_pair_truncated(hm, words_array, i, j) ==
    LET common_letters == sorted(presence_row(words_array, i) \cap presence_row(words_array, j))
        num_common == Min(Len(common_letters), L - 1)
        vals == SubSeq(common_letters, 1, num_common)
        h1 == WriteSlots(hm, i, j, L, vals)
    IN  IF i # j THEN WriteSlots(h1, j, i, L, vals) ELSE h1

optimized_pair(hm, words_array, i, j) ==
    LET common_presence == presence_row(words_array, i) \cap presence_row(words_array, j)
        \* np.nonzero returns the set bytes in increasing order
        common_letters == sorted(common_presence)
        num_common == Min(Len(common_letters), L)
        vals == SubSeq(common_letters, 1, num_common)
        h1 == WriteSlots(hm, i, j, L, vals)
    IN  IF i # j THEN WriteSlots(h1, j, i, L, vals) ELSE h1

RECURSIVE optimized_loop_j(_, _, _, _)
optimized_loop_j(hm, words_array, i, j) ==
    IF j > Len(words_array) THEN hm
    ELSE optimized_loop_j(optimized_pair(hm, words_array, i, j), words_array, i, j + 1)

RECURSIVE optimized_loop_i(_, _, _)
optimized_loop_i(hm, words_array, i) ==
    IF i > Len(words_array) THEN hm
    ELSE optimized_loop_i(optimized_loop_j(hm, words_array, i, i), words_array, i + 1)

compute_cross_hints_matrix_optimized(words_array) ==
    optimized_loop_i(broadcast_positions(zeros(Len(words_array)), words_array), words_array, 1)

\* word_sets[i] = frozenset(words_array[i].tolist())
word_sets(words_array, i) == LetterSet(words_array[i])

\* fast_pair without the write to the mirror cell (j, i)
fast_pair_no_mirror(hm, words_array, i, j) ==
    LET common == sorted(word_sets(words_array, i) \cap word_sets(words_array, j))
        num_common == Min(Len(common), L)
    IN  IF num_common > 0 THEN WriteSlots(hm, i, j, L, SubSeq(common, 1, num_common)) ELSE hm

fast_pair(hm, words_array, i, j) ==
    LET common == sorted(word_sets(words_array, i) \cap word_sets(words_array, j))
        num_common == Min(Len(common), L)
        vals == SubSeq(common, 1, num_common)
    IN  IF num_common > 0
        THEN LET h1 == WriteSlots(hm, i, j, L, vals)
             IN  IF i # j THEN WriteSlots(h1, j, i, L, vals) ELSE h1
        ELSE hm

RECURSIVE fast_loop_j(_, _, _, _)
fast_loop_j(hm, words_array, i, j) ==
    IF j > Len(words_array) THEN hm
    ELSE fast_loop_j(fast_pair(hm, words_array, i, j), words_array, i, j + 1)

RECURSIVE fast_loop_i(_, _, _)
fast_loop_i(hm, words_array, i) ==
    IF i > Len(words_array) THEN hm
    ELSE fast_loop_i(fast_loop_j(hm, words_array, i, i), words_array, i + 1)

compute_cross_hints_matrix_fast(words_array) ==
    fast_loop_i(broadcast_positions(zeros(Len(words_array)), words_array), words_array, 1)

\* kernel_common that never unmarks a letter, so a letter occurring twice
\* in word j is stored twice
RECURSIVE kernel_common_no_unmark(_, _, _, _, _, _, _)
kernel_common_no_unmark(hm, word_j, i, j, pos, presence_i, common_idx) ==
    IF pos > L THEN hm
    ELSE LET letter == word_j[pos]
         IN  IF letter \in presence_i
             THEN kernel_common_no_unmark(
                    [hm EXCEPT ![<<i, j, L + common_idx + 1>>] = letter,
                               ![<<j, i, L + common_idx + 1>>] = letter],
                    word_j, i, j, pos + 1, presence_i, common_idx + 1)
             ELSE kernel_common_no_unmark(hm, word_j, i, j, pos + 1, presence_i, common_idx)

\* lines 148-156: scan word j; a letter still marked in presence_i is
\* unmarked and stored in slot L + common_idx of (i, j) and of (j, i)
RECURSIVE kernel_common(_, _, _, _, _, _, _)
kernel_common(hm, word_j, i, j, pos, presence_i, common_idx) ==
    IF pos > L THEN hm
    ELSE LET letter == word_j[pos]
         IN  IF letter \in presence_i
             THEN kernel_common(
                    [hm EXCEPT ![<<i, j, L + common_idx + 1>>] = letter,
                               ![<<j, i, L + common_idx + 1>>] = letter],
                    word_j, i, j, pos + 1, presence_i \ {letter}, common_idx + 1)
             ELSE kernel_common(hm, word_j, i, j, pos + 1, presence_i, common_idx)

\* kernel_pair leaving out the diagonal pair (i, i)
kernel_pair_skip_diagonal(hm, words_array, i, j) ==
    IF i = j THEN hm
    ELSE kernel_common(
            WritePos(WritePos(hm, i, j, words_array[i], words_array[j]),
                     j, i, words_array[i], words_array[j]),
            words_array[j], i, j, 1, {words_array[i][pos] : pos \in 1..L}, 0)

\* body of the pair loop of the compiled kernels (lines 135-156, 186-204)
kernel_pair(hm, words_array, i, j) ==
    LET word_i == words_array[i]
        word_j == words_array[j]
        h1 == WritePos(WritePos(hm, i, j, word_i, word_j), j, i, word_i, word_j)
        presence_i == {word_i[pos] : pos \in 1..L}
    IN  kernel_common(h1, word_j, i, j, 1, presence_i, 0)

\* for j in range(i, N): the work of row i
RECURSIVE kernel_row(_, _, _, _)
kernel_row(hm, words_array, i, j) ==
    IF j > Len(words_array) THEN hm
    ELSE kernel_row(kernel_pair(hm, words_array, i, j), words_array, i, j + 1)

RECURSIVE compute_cross_hints_numba_kernel(_, _, _)
compute_cross_hints_numba_kernel(words_array, hm, i) ==
    IF i > Len(words_array) THEN hm
    ELSE compute_cross_hints_numba_kernel(words_array, kernel_row(hm, words_array, i, i), i + 1)

compute_cross_hints_matrix_numba(words_array) ==
    compute_cross_hints_numba_kernel(words_array, zeros(Len(words_array)), 1)

\* for i in prange(N): the rows are carried out in the order row_order,
\* which the runtime chooses
RECURSIVE compute_cross_hints_numba_parallel_kernel(_, _, _)
compute_cross_hints_numba_parallel_kernel(words_array, hm, row_order) ==
    IF row_order = <<>> THEN hm
    ELSE compute_cross_hints_numba_parallel_kernel(
            words_array, kernel_row(hm, words_array, Head(row_order), Head(row_order)),
            Tail(row_order))

compute_cross_hints_matrix_numba_parallel(words_array, row_order) ==
    compute_cross_hints_numba_parallel_kernel(words_array, zeros(Len(words_array)), row_order)

\* ----------------------------------------------------------- evaluators
\* A float result is kept exactly.  expected_remaining is the fraction
\* <<num, den>>.  expected_bits is <<a, b, d>>, standing for
\* log2(a / b) / d: the sum over k of -log2(count_k / N) is
\* log2(N^N / (count_1 * ... * count_N)); b = 0 stands for +inf.
Return(bits, remaining) == [kind |-> "ok", expected_bits |-> bits, expected_remaining |-> remaining]
Raise(error) == [kind |-> error, expected_bits |-> <<0, 0, 0>>, expected_remaining |-> <<0, 0>>]
\* the literal 0.0
ZeroBits == <<1, 1, 1>>

RECURSIVE SumSeq(_)
SumSeq(s) == IF s = <<>> THEN 0 ELSE Head(s) + SumSeq(Tail(s))
RECURSIVE ProdSeq(_)
ProdSeq(s) == IF s = <<>> THEN 1 ELSE Head(s) * ProdSeq(Tail(s))

\* bitwise & and | of two unsigned integers
RECURSIVE BitAnd(_, _)
BitAnd(a, b) == IF a = 0 \/ b = 0 THEN 0 ELSE (a % 2) * (b % 2) + 2 * BitAnd(a \div 2, b \div 2)
RECURSIVE BitOr(_, _)
BitOr(a, b) ==
    IF a = 0 THEN b ELSE IF b = 0 THEN a
    ELSE Max(a % 2, b % 2) + 2 * BitOr(a \div 2, b \div 2)

\* pos_compatible without the "no constraint" case of a zero slot
pos_compatible_strict(word, pos_hint) == \A pos \in 1..L : word[pos] = pos_hint[pos]

\* the position test shared by all tiers: hint == 0 or word[pos] == hint
pos_compatible(word, pos_hint) == \A pos \in 1..L : pos_hint[pos] = 0 \/ word[pos] = pos_hint[pos]

\* lines 256-261: merge the rows hint_matrix[i, k] of the opening words, in
\* list order, into hint; the slice assignment of line 261 fails when the
\* set has more than L letters
RECURSIVE merge_hints(_, _, _, _)
merge_hints(hint, hint_matrix, openings, k) ==
    IF openings = <<>> THEN [ok |-> TRUE, hint |-> hint]
    ELSE LET hint_i == Cell(hint_matrix, Head(openings), k)
             matching_letters == ({hint[L + s] : s \in 1..L} \cup {hint_i[L + s] : s \in 1..L}) \ {0}
             \* list(matching_letters): the order is not observable, the
             \* slots are read back as a set
             as_list == sorted(matching_letters)
         IN  IF Cardinality(matching_letters) > L
             THEN [ok |-> FALSE, hint |-> hint]
             ELSE merge_hints(
                    [s \in 1..(2*L) |->
                        IF s <= L THEN Max(hint[s], hint_i[s])
                        ELSE IF s - L <= Len(as_list) THEN as_list[s - L]
                        ELSE hint[s]],
                    hint_matrix, Tail(openings), k)

\* count_compatibles without the letter test of line 266
count_compatibles_no_letters(words_array, hint) ==
    Cardinality({carg \in 1..Len(words_array) : pos_compatible(words_array[carg], hint)})

\* lines 264-266: number of pool words compatible with the merged hint
count_compatibles(words_array, hint) ==
    LET letters_set == {hint[L + s] : s \in 1..L} \ {0}
    IN  Cardinality({carg \in 1..Len(words_array) :
            /\ pos_compatible(words_array[carg], hint)
            /\ letters_set \subseteq LetterSet(words_array[carg])})

\* len(compatibles) for target k in the reference evaluator; -1 when the
\* merge raises
original_compatible(words_array, hint_matrix, openings, k) ==
    LET m == merge_hints([s \in 1..(2*L) |-> 0], hint_matrix, openings, k)
    IN  IF m.ok THEN count_compatibles(words_array, m.hint) ELSE -1

evaluate_opening_entropy(words_array, hint_matrix, openings) ==
    LET N == Len(words_array)
        counts == [k \in 1..N |-> original_compatible(words_array, hint_matrix, openings, k)]
    IN  IF \E k \in 1..N : counts[k] <= 0 THEN Raise("ValueError")
        ELSE IF N = 0 THEN Raise("ZeroDivisionError")
        ELSE Return(<<N^N, ProdSeq(counts), N>>, <<SumSeq(counts), N>>)

\* letter_bit with the shift taken modulo 8, as a shift computed in uint8
\* arithmetic on a narrower mask would be
letter_bit_mod8(letter) == 2^((letter - OrdA) % 8)

\* np.uint32(1) << (letter - ord('A')); for the letters A-Z the shift is at
\* most 25 and the result fits the 32 bits of the mask
letter_bit(letter) == 2^(letter - OrdA)

\* lines 296-300: letters_presence[w] as a 32-bit mask
RECURSIVE letters_presence_upto(_, _)
letters_presence_upto(word, pos) ==
    IF pos = 0 THEN 0
    ELSE BitOr(letters_presence_upto(word, pos - 1), letter_bit(word[pos]))

letters_presence(words_array, w) == letters_presence_upto(words_array[w], L)

\* merged_positions taking the minimum over the opening rows
RECURSIVE merged_positions_min(_, _, _)
merged_positions_min(hint_matrix, openings, k) ==
    IF Len(openings) = 1 THEN PosSection(hint_matrix, openings[1], k)
    ELSE LET rest == merged_positions_min(hint_matrix, Tail(openings), k)
             row == PosSection(hint_matrix, Head(openings), k)
         IN  [pos \in 1..L |-> Min(row[pos], rest[pos])]

\* np.max(opening_hints[:, :, :L], axis=0)[k]
RECURSIVE merged_positions(_, _, _)
merged_positions(hint_matrix, openings, k) ==
    IF Len(openings) = 1 THEN PosSection(hint_matrix, openings[1], k)
    ELSE LET rest == merged_positions(hint_matrix, Tail(openings), k)
             row == PosSection(hint_matrix, Head(openings), k)
         IN  [pos \in 1..L |-> Max(row[pos], rest[pos])]

\* row_letters_mask assigning the bit of each letter to the mask instead
\* of or-ing it in
RECURSIVE row_letters_mask_assign(_, _, _, _, _)
row_letters_mask_assign(mask, hint_matrix, i, k, pos) ==
    IF pos > L THEN mask
    ELSE LET letter == hint_matrix[<<i, k, L + pos>>]
         IN  row_letters_mask_assign(IF letter > 0 THEN letter_bit(letter) ELSE mask,
                                     hint_matrix, i, k, pos + 1)

\* row_letters_mask leaving the loop at the first zero slot
RECURSIVE row_letters_mask_until_zero(_, _, _, _, _)
row_letters_mask_until_zero(mask, hint_matrix, i, k, pos) ==
    IF pos > L THEN mask
    ELSE LET letter == hint_matrix[<<i, k, L + pos>>]
         IN  IF letter > 0
             THEN row_letters_mask_until_zero(BitOr(mask, letter_bit(letter)),
                                              hint_matrix, i, k, pos + 1)
             ELSE mask

\* lines 316-324: the non-zero letters of hint_matrix[i, k, L + pos] are
\* or-ed into the mask of target k
RECURSIVE row_letters_mask(_, _, _, _, _)
row_letters_mask(mask, hint_matrix, i, k, pos) ==
    IF pos > L THEN mask
    ELSE LET letter == hint_matrix[<<i, k, L + pos>>]
         IN  row_letters_mask(IF letter > 0 THEN BitOr(mask, letter_bit(letter)) ELSE mask,
                              hint_matrix, i, k, pos + 1)

\* merged_letters_mask adding the mask of each row instead of or-ing it in
RECURSIVE merged_letters_mask_sum(_, _, _, _)
merged_letters_mask_sum(mask, hint_matrix, openings, k) ==
    IF openings = <<>> THEN mask
    ELSE merged_letters_mask_sum(mask + row_letters_mask(0, hint_matrix, Head(openings), k, 1),
                                 hint_matrix, Tail(openings), k)

RECURSIVE merged_letters_mask(_, _, _, _)
merged_letters_mask(mask, hint_matrix, openings, k) ==
    IF openings = <<>> THEN mask
    ELSE merged_letters_mask(row_letters_mask(mask, hint_matrix, Head(openings), k, 1),
                             hint_matrix, Tail(openings), k)

\* lines 328-341: compatible_count of target k in the vectorized evaluator
optimized_compatible(words_array, hint_matrix, openings, k) ==
    LET pos_hint == merged_positions(hint_matrix, openings, k)
        letters_mask == merged_letters_mask(0, hint_matrix, openings, k)
    IN  Cardinality({w \in 1..Len(words_array) :
            /\ pos_compatible(words_array[w], pos_hint)
            /\ BitAnd(letters_mask, letters_presence(words_array, w)) = letters_mask})

evaluate_opening_entropy_optimized(words_array, hint_matrix, openings) ==
    LET N == Len(words_array)
        counts == [k \in 1..N |-> optimized_compatible(words_array, hint_matrix, openings, k)]
    IN  IF Len(openings) = 0 THEN Return(ZeroBits, <<N, 1>>)
        ELSE IF \E k \in 1..N : counts[k] = 0 THEN Raise("ValueError")
        ELSE Return(<<N^N, ProdSeq(counts), N>>, <<SumSeq(counts), N>>)

\* kernel_merge that overwrites pos_hint with the row of each opening word
\* instead of keeping the larger value
RECURSIVE kernel_merge_overwrite(_, _, _, _, _)
kernel_merge_overwrite(pos_hint, letters_mask, hint_matrix, openings, k) ==
    IF openings = <<>> THEN [pos_hint |-> pos_hint, letters_mask |-> letters_mask]
    ELSE LET i == Head(openings)
         IN  kernel_merge_overwrite(
                [pos \in 1..L |-> hint_matrix[<<i, k, pos>>]],
                row_letters_mask(letters_mask, hint_matrix, i, k, 1),
                hint_matrix, Tail(openings), k)

\* lines 372-385: pos_hint and letters_mask of target k, one opening at a time
RECURSIVE kernel_merge(_, _, _, _, _)
kernel_merge(pos_hint, letters_mask, hint_matrix, openings, k) ==
    IF openings = <<>> THEN [pos_hint |-> pos_hint, letters_mask |-> letters_mask]
    ELSE LET i == Head(openings)
         IN  kernel_merge(
                [pos \in 1..L |->
                    IF hint_matrix[<<i, k, pos>>] > pos_hint[pos]
                    THEN hint_matrix[<<i, k, pos>>] ELSE pos_hint[pos]],
                row_letters_mask(letters_mask, hint_matrix, i, k, 1),
                hint_matrix, Tail(openings), k)

\* lines 388-400: compatible_count of target k in the compiled kernels
kernel_compatible(words_array, hint_matrix, openings, k) ==
    LET m == kernel_merge([pos \in 1..L |-> 0], 0, hint_matrix, openings, k)
    IN  Cardinality({w \in 1..Len(words_array) :
            /\ pos_compatible(words_array[w], m.pos_hint)
            /\ BitAnd(m.letters_mask, letters_presence(words_array, w)) = m.letters_mask})

\* lines 388-400: the words counted for target k in the compiled kernels
kernel_compatibles(words_array, hint_matrix, openings, k) ==
    LET m == kernel_merge([pos \in 1..L |-> 0], 0, hint_matrix, openings, k)
    IN  {w \in 1..Len(words_array) :
            /\ pos_compatible(words_array[w], m.pos_hint)
            /\ BitAnd(m.letters_mask, letters_presence(words_array, w)) = m.letters_mask}

\* lines 264-266: the list compatibles of target k in the reference
\* evaluator, the merge having succeeded
original_compatibles(words_array, hint_matrix, openings, k) ==
    LET hint == merge_hints([s \in 1..(2*L) |-> 0], hint_matrix, openings, k).hint
    IN  {carg \in 1..Len(words_array) :
            /\ pos_compatible(words_array[carg], hint)
            /\ ({hint[L + s] : s \in 1..L} \ {0}) \subseteq LetterSet(words_array[carg])}

\* the kernel has no zero check: a zero count gives -log2(0) = +inf
evaluate_opening_entropy_numba_kernel(words_array, hint_matrix, openings) ==
    LET N == Len(words_array)
        counts == [k \in 1..N |-> kernel_compatible(words_array, hint_matrix, openings, k)]
    IN  Return(<<N^N, ProdSeq(counts), N>>, <<SumSeq(counts), N>>)

evaluate_opening_entropy_numba(words_array, hint_matrix, openings) ==
    IF Len(openings) = 0 THEN Return(ZeroBits, <<Len(words_array), 1>>)
    ELSE evaluate_opening_entropy_numba_kernel(words_array, hint_matrix, openings)

\* for k in prange(N): results[k, 1] = compatible_count, the targets being
\* taken in the order k_order
RECURSIVE evaluate_opening_entropy_numba_parallel_kernel(_, _, _, _, _)
evaluate_opening_entropy_numba_parallel_kernel(words_array, hint_matrix, openings, results, k_order) ==
    IF k_order = <<>> THEN results
    ELSE evaluate_opening_entropy_numba_parallel_kernel(
            words_array, hint_matrix, openings,
            [results EXCEPT ![Head(k_order)] =
                kernel_compatible(words_array, hint_matrix, openings, Head(k_order))],
            Tail(k_order))

evaluate_opening_entropy_numba_parallel(words_array, hint_matrix, openings, k_order) ==
    LET N == Len(words_array)
        results == evaluate_opening_entropy_numba_parallel_kernel(
                      words_array, hint_matrix, openings, [k \in 1..N |-> 0], k_order)
    IN  IF Len(openings) = 0 THEN Return(ZeroBits, <<N, 1>>)
        ELSE Return(<<N^N, ProdSeq(results), N>>, <<SumSeq(results), N>>)

\* ------------------------------------------------- pool construction
\* bytes of the word strings handed to the driver: 'A', 'b' and '1'
RawBytes == {65, 98, 49}
\* word strings of the generated length and one byte shorter
RawWords == UNION {[1..n -> RawBytes] : n \in (WordLength - 1)..WordLength}
\* the driver is given at least one word
RawLists == UNION {[1..n -> RawWords] : n \in 1..MaxN}

\* upper leaving every byte as it is
upper_identity(w) == w

\* str.upper() on the bytes of an ASCII string
upper(w) == [p \in 1..Len(w) |-> IF w[p] \in 97..122 THEN w[p] - 32 ELSE w[p]]

\* np.array(rows, dtype=np.uint8) needs rows of one length
homogeneous(rows) == \A a, b \in 1..Len(rows) : Len(rows[a]) = Len(rows[b])

\* ------------------------------------------- index lists of any kind
\* opening lists whose entries need not be pool indices: the code values
\* -1 .. N, here 0 .. N+1
AnyOpenings(n) == UNION {[1..m -> 0..(n + 1)] : m \in 0..MaxOpenings}

\* a negative index i is taken as i + N, by numpy's indexing and by the
\* indexing of compiled code alike
wraparound(openings, n) ==
    [m \in DOMAIN openings |-> IF openings[m] < 1 THEN openings[m] + n ELSE openings[m]]

InRange(openings, n) == \A m \in DOMAIN openings : openings[m] \in 1..n

\* hint_matrix[i, k] of line 255 checks the normalised index against the
\* shape; with N = 0 the loop over k has no iteration and nothing is indexed
evaluate_opening_entropy_indexed(words_array, hint_matrix, openings) ==
    LET n == Len(words_array)
        indices == wraparound(openings, n)
    IN  IF n > 0 /\ ~InRange(indices, n) THEN {Raise("IndexError")}
        ELSE {evaluate_opening_entropy(words_array, hint_matrix, indices)}

\* hint_matrix[opening_words_indices, :, :] of line 308
evaluate_opening_entropy_optimized_indexed(words_array, hint_matrix, openings) ==
    LET n == Len(words_array)
        indices == wraparound(openings, n)
    IN  IF Len(openings) > 0 /\ ~InRange(indices, n) THEN {Raise("IndexError")}
        ELSE {evaluate_opening_entropy_optimized(words_array, hint_matrix, indices)}

\* what the compiled kernels read at hint_matrix[i, k, pos] with i >= N:
\* the bytes behind the buffer, here all equal to one value v
out_of_bounds(hint_matrix, n, v) ==
    [c \in (1..(n + 1)) \X (1..n) \X (1..(2*L)) |-> IF c[1] <= n THEN hint_matrix[c] ELSE v]

\* The compiled kernels index without bounds checks (lines 375-385): an
\* index i >= N reads outside the matrix, which ends the process or yields
\* whatever bytes lie there.  With N = 0 no slot is read and the final
\* division by N raises.
evaluate_opening_entropy_numba_indexed(words_array, hint_matrix, openings) ==
    LET n == Len(words_array)
        indices == wraparound(openings, n)
    IN  IF Len(openings) = 0 \/ (n > 0 /\ InRange(indices, n))
        THEN {evaluate_opening_entropy_numba(words_array, hint_matrix, indices)}
        ELSE IF n = 0 THEN {Raise("ZeroDivisionError")}
        ELSE {Raise("SegmentationFault")} \cup
             {evaluate_opening_entropy_numba(words_array, out_of_bounds(hint_matrix, n, v), indices) :
                v \in {0} \cup Letters}

\* lines 454-465 index like the serial kernel; with N = 0 the sums of the
\* empty results array are divided by N outside compiled code (line 510),
\* which gives nan, written <<0, 0, 0>> and <<0, 0>>
evaluate_opening_entropy_numba_parallel_indexed(words_array, hint_matrix, openings, k_order) ==
    LET n == Len(words_array)
        indices == wraparound(openings, n)
    IN  IF Len(openings) = 0 \/ (n > 0 /\ InRange(indices, n))
        THEN {evaluate_opening_entropy_numba_parallel(words_array, hint_matrix, indices, k_order)}
        ELSE IF n = 0 THEN {Return(<<0, 0, 0>>, <<0, 0>>)}
        ELSE {Raise("SegmentationFault")} \cup
             {evaluate_opening_entropy_numba_parallel(
                    words_array, out_of_bounds(hint_matrix, n, v), indices, k_order) :
                v \in {0} \cup Letters}

\* ---------------------------------------------------- the Wordle game
\* WordleGame.MAX_ATTEMPTS
MAX_ATTEMPTS == 6

\* str.strip() on the bytes of an ASCII string: blanks at both ends go
RECURSIVE lstrip(_)
lstrip(w) == IF w # <<>> /\ Head(w) = 32 THEN lstrip(Tail(w)) ELSE w
RECURSIVE rstrip(_)
rstrip(w) == IF w # <<>> /\ w[Len(w)] = 32 THEN rstrip(SubSeq(w, 1, Len(w) - 1)) ELSE w
strip(w) == rstrip(lstrip(w))

\* str.isalpha() on an ASCII string
isalpha(w) == w # <<>> /\ \A p \in 1..Len(w) : w[p] \in (OrdA..OrdZ) \cup ((OrdA + 32)..(OrdZ + 32))

\* hashlib.sha256(...).hexdigest(): equal digests only for equal strings
sha256(w) == <<"sha256", w>>

\* lines 50-58: a new WordleState
create_game_state(self) ==
    [guesses |-> <<>>, attempts |-> 0, max_attempts |-> MAX_ATTEMPTS,
     won |-> FALSE, lost |-> FALSE, game_over |-> FALSE,
     secret_hash |-> sha256(self.secret)]

\* lines 126-133: the second pass over the hints, left to right; None in
\* secret_letters is 0
RECURSIVE second_pass(_, _, _, _)
second_pass(hints, secret_letters, guess, i) ==
    IF i > Len(guess) THEN hints
    ELSE IF hints[i].status # "pending" THEN second_pass(hints, secret_letters, guess, i + 1)
    ELSE IF \E t \in DOMAIN secret_letters : secret_letters[t] = guess[i]
    THEN LET index == CHOOSE t \in DOMAIN secret_letters :
                        /\ secret_letters[t] = guess[i]
                        /\ \A u \in 1..(t - 1) : secret_letters[u] # guess[i]
         IN  second_pass([hints EXCEPT ![i].status = "present"],
                         [secret_letters EXCEPT ![index] = 0], guess, i + 1)
    ELSE second_pass([hints EXCEPT ![i].status = "absent"], secret_letters, guess, i + 1)

\* lines 114-141: the GuessResult of a validated guess
guess_result(guess, secret) ==
    LET first_pass == [i \in 1..Len(guess) |->
                        [letter |-> guess[i],
                         status |-> IF guess[i] = secret[i] THEN "correct" ELSE "pending"]]
        secret_letters == [i \in 1..Len(secret) |-> IF guess[i] = secret[i] THEN 0 ELSE secret[i]]
    IN  [word |-> guess,
         hints |-> second_pass(first_pass, secret_letters, guess, 1),
         is_correct |-> guess = secret]

\* record_guess declaring the game lost only beyond max_attempts
record_guess_beyond(state, result) ==
    LET counted == [state EXCEPT !.guesses = Append(@, result), !.attempts = @ + 1]
    IN  IF result.is_correct THEN [counted EXCEPT !.won = TRUE, !.game_over = TRUE]
        ELSE IF counted.attempts > counted.max_attempts
        THEN [counted EXCEPT !.lost = TRUE, !.game_over = TRUE]
        ELSE counted

\* lines 143-155: the guess is appended, the attempt counted, the game
\* decided
record_guess(state, result) ==
    LET counted == [state EXCEPT !.guesses = Append(@, result), !.attempts = @ + 1]
    IN  IF result.is_correct THEN [counted EXCEPT !.won = TRUE, !.game_over = TRUE]
        ELSE IF counted.attempts >= counted.max_attempts
        THEN [counted EXCEPT !.lost = TRUE, !.game_over = TRUE]
        ELSE counted

\* what a call leaves behind: kind is "returned" or "ValueError", passed is
\* the caller's state object after the call, state the object returned
Outcome(kind, passed, state) == [kind |-> kind, passed |-> passed, state |-> state]

\* check_guess counting the attempt on the object it is given, before the
\* guess is validated
check_guess_in_place(self, guess, game_state) ==
    LET normalised == strip(upper(guess))
        secret == upper(self.secret)
        counted == [game_state EXCEPT !.attempts = @ + 1]
    IN  IF game_state.game_over THEN Outcome("ValueError", game_state, game_state)
        ELSE IF \/ Len(normalised) # Len(secret)
                \/ ~isalpha(normalised)
                \/ \A w \in DOMAIN self.word_list : self.word_list[w] # normalised
        THEN Outcome("ValueError", counted, counted)
        ELSE LET after == record_guess(game_state, guess_result(normalised, secret))
             IN  Outcome("returned", after, after)

\* lines 60-155: check_guess called with a state of the caller.  The state
\* is checked against the secret and copied; the copy is what the rest of
\* the method reads and writes, the caller's object stays as it was.
check_guess(self, guess, game_state) ==
    LET current_hash == sha256(self.secret)
        copy == [game_state EXCEPT !.secret_hash = IF @ # <<>> THEN @ ELSE current_hash]
        normalised == strip(upper(guess))
        secret == upper(self.secret)
    IN  IF game_state.secret_hash # <<>> /\ game_state.secret_hash # current_hash
        THEN Outcome("ValueError", game_state, game_state)
        ELSE IF copy.game_over THEN Outcome("ValueError", game_state, game_state)
        ELSE IF Len(normalised) # Len(secret) THEN Outcome("ValueError", game_state, game_state)
        ELSE IF ~isalpha(normalised) THEN Outcome("ValueError", game_state, game_state)
        ELSE IF \A w \in DOMAIN self.word_list : self.word_list[w] # normalised
        THEN Outcome("ValueError", game_state, game_state)
        ELSE Outcome("returned", game_state,
                     record_guess(copy, guess_result(normalised, secret)))

\* ---------------------------------------------------- the game server
\* the number of game factories the server is constructed with
NumGames == 2
\* the dates cached per game: len(game_dates) > 7
CacheLimit == 7
\* dates are day numbers; the strings "YYYY-MM-DD" of the code compare as
\* the days do.  One day more than the cache keeps.
MaxDate == CacheLimit + 1
\* the days requested of the games other than the first
MaxOtherDate == 2

\* line 74: the instance a factory makes for a date
factory(game_id, date_str) == [game_id |-> game_id, date |-> date_str]

\* the keys the eviction looks at, taken over all games
game_dates_any_game(cache, game_id) == DOMAIN cache

\* line 78: the keys of the cache that belong to game_id
game_dates(cache, game_id) == {key \in DOMAIN cache : key[1] = game_id}

\* line 80: min(game_dates, key=lambda k: k[1])
oldest_key(keys) == CHOOSE key \in keys : \A other \in keys : key[2] <= other[2]

\* what a call leaves behind: kind is "returned", "ValueError" or
\* "KeyError", fresh tells whether the factory was called, cache is the
\* cache after the call, game the instance returned
Served(kind, fresh, cache, game) == [kind |-> kind, fresh |-> fresh, cache |-> cache, game |-> game]

\* game_server.py lines 55-83 (server_game.py lines 45-64 is the same
\* method for a server of one game)
get_game_for_date(cache, game_id, date_str) ==
    LET cache_key == <<game_id, date_str>>
    IN  IF cache_key \in DOMAIN cache THEN Served("returned", FALSE, cache, cache[cache_key])
        ELSE IF game_id < 0 \/ game_id >= NumGames THEN Served("ValueError", FALSE, cache, <<>>)
        ELSE LET inserted == [key \in DOMAIN cache \cup {cache_key} |->
                                IF key = cache_key THEN factory(game_id, date_str) ELSE cache[key]]
                 keys == game_dates(inserted, game_id)
                 kept == IF Cardinality(keys) > CacheLimit
                         THEN [key \in DOMAIN inserted \ {oldest_key(keys)} |-> inserted[key]]
                         ELSE inserted
             IN  IF cache_key \in DOMAIN kept
                 THEN Served("returned", TRUE, kept, kept[cache_key])
                 ELSE Served("KeyError", TRUE, kept, <<>>)

\* --------------------------------------------------------------- state
VARIABLES
    words_array,            \* the pool, N words of length L
    hints_matrix,           \* the N x N x 2L matrix, once built
    builder,                \* the builder tier that produced hints_matrix
    opening_words_indices,  \* the opening of the last evaluation
    evaluator,              \* the evaluator tier of the last evaluation
    compatible,             \* per target k, the compatible count it computed
    score,                  \* what the last evaluation returned or raised
    pc,                     \* position of the caller in load / build / evaluate
    words_list,             \* the word strings the pool is encoded from
    workers,                \* per prange index, the position of its iteration
    writers,                \* per written slot, the prange indices that wrote it
    results,                \* the (N, 2) results array of the parallel evaluator
    game,                   \* the WordleGame instance: word_list and _secret
    game_state,             \* the WordleState the player holds
    outcome,                \* the last check_guess call: the guess and how it ended
    game_cache,             \* GameServer._game_cache
    served                  \* the last get_game_for_date call and how it ended

\* what the sequential build and evaluate steps never touch
\* what the opening solver never touches
play == <<game, game_state, outcome, game_cache, served>>

\* no game is constructed and no server is running
NoPlay ==
    /\ game = <<>>
    /\ game_state = <<>>
    /\ outcome = <<>>
    /\ game_cache = <<>>
    /\ served = <<>>

aux == <<L, words_list, workers, writers, results, play>>

vars == <<words_array, hints_matrix, builder, opening_words_indices, evaluator, compatible, score, pc, aux>>

NoScore == Raise("none")

\* opening lists of valid pool indices
Openings(N) == UNION {[1..n -> 1..N] : n \in 0..MaxOpenings}

Init ==
    /\ words_array \in Pools
    /\ hints_matrix = <<>>
    /\ builder = "none"
    /\ opening_words_indices = <<>>
    /\ evaluator = "none"
    /\ compatible = <<>>
    /\ score = NoScore
    /\ pc = "pool"
    /\ L = WordLength
    /\ words_list = words_array
    /\ workers = <<>>
    /\ writers = <<>>
    /\ results = <<>>
    /\ NoPlay

Built(tier, hm) ==
    /\ pc = "pool"
    /\ hints_matrix' = hm
    /\ builder' = tier
    /\ pc' = "built"
    /\ UNCHANGED <<words_array, opening_words_indices, evaluator, compatible, score, aux>>

BuildOriginal ==
    \E set_order \in Orderings(PoolLetters(words_array)) :
        Built("original", compute_cross_hints_matrix(words_array, set_order))

BuildOptimized == Built("optimized", compute_cross_hints_matrix_optimized(words_array))

BuildFast == Built("fast", compute_cross_hints_matrix_fast(words_array))

BuildNumba == Built("numba", compute_cross_hints_matrix_numba(words_array))

BuildNumbaParallel ==
    \E row_order \in Orderings(1..Len(words_array)) :
        Built("numba_parallel", compute_cross_hints_matrix_numba_parallel(words_array, row_order))

\* compatible(k) as a tier computes it on the pool and matrix of the state;
\* the two compiled tiers share the code of their kernels' loop body
TierCompatible(tier, openings, k) ==
    CASE tier = "original" -> original_compatible(words_array, hints_matrix, openings, k)
      [] tier = "optimized" -> optimized_compatible(words_array, hints_matrix, openings, k)
      [] OTHER -> kernel_compatible(words_array, hints_matrix, openings, k)

\* the counts a call computes: none on the short-circuit of the empty
\* opening, which only the reference evaluator lacks
Counts(tier, openings) ==
    IF tier # "original" /\ openings = <<>> THEN <<>>
    ELSE [k \in 1..Len(words_array) |-> TierCompatible(tier, openings, k)]

\* Evaluated with the merge done in place: the merged position section of
\* every target is written into the matrix row of the first opening word
Evaluated_in_place(tier, openings, result) ==
    /\ pc \in {"built", "altered"}
    /\ opening_words_indices' = openings
    /\ evaluator' = tier
    /\ compatible' = <<>>
    /\ score' = result
    /\ pc' = "scored"
    /\ hints_matrix' =
        [c \in DOMAIN hints_matrix |->
            IF openings # <<>> /\ c[1] = openings[1] /\ c[3] <= L
            THEN kernel_merge([pos \in 1..L |-> 0], 0, hints_matrix, openings, c[2]).pos_hint[c[3]]
            ELSE hints_matrix[c]]
    /\ UNCHANGED <<words_array, builder, aux>>

\* An evaluation reads the pool and the matrix only, so the state after a
\* series of evaluations is the state after the last one alone; a run
\* therefore carries one evaluation.
Evaluated(tier, openings, result) ==
    /\ pc \in {"built", "altered"}
    /\ opening_words_indices' = openings
    /\ evaluator' = tier
    /\ compatible' = Counts(tier, openings)
    /\ score' = result
    /\ pc' = "scored"
    /\ UNCHANGED <<words_array, hints_matrix, builder, aux>>

EvaluateOriginal ==
    \E openings \in Openings(Len(words_array)) :
        Evaluated("original", openings,
                  evaluate_opening_entropy(words_array, hints_matrix, openings))

EvaluateOptimized ==
    \E openings \in Openings(Len(words_array)) :
        Evaluated("optimized", openings,
                  evaluate_opening_entropy_optimized(words_array, hints_matrix, openings))

EvaluateNumba ==
    \E openings \in Openings(Len(words_array)) :
        Evaluated("numba", openings,
                  evaluate_opening_entropy_numba(words_array, hints_matrix, openings))

EvaluateNumbaParallel ==
    \E openings \in Openings(Len(words_array)) :
        \E k_order \in Orderings(1..Len(words_array)) :
            Evaluated("numba_parallel", openings,
                      evaluate_opening_entropy_numba_parallel(words_array, hints_matrix, openings, k_order))

Next ==
    \/ BuildOriginal
    \/ BuildOptimized
    \/ BuildFast
    \/ BuildNumba
    \/ BuildNumbaParallel
    \/ EvaluateOriginal
    \/ EvaluateOptimized
    \/ EvaluateNumba
    \/ EvaluateNumbaParallel

Spec == Init /\ [][Next]_vars

TypeOK ==
    /\ words_array \in Pools
    /\ pc \in {"raw", "failed", "pool", "building", "built", "altered", "evaluating", "scored"}
    /\ builder \in BuilderTiers \cup {"none"}
    /\ evaluator \in EvaluatorTiers \cup {"none"}
    /\ pc # "pool" => DOMAIN hints_matrix = (1..Len(words_array)) \X (1..Len(words_array)) \X (1..(2*L))

\* ------------------------------------------------------- builder claims
N == Len(words_array)

\* every matrix a builder tier can return for the pool
TierMatrices(tier) ==
    CASE tier = "original" ->
            {compute_cross_hints_matrix(words_array, o) : o \in Orderings(PoolLetters(words_array))}
      [] tier = "optimized" -> {compute_cross_hints_matrix_optimized(words_array)}
      [] tier = "fast" -> {compute_cross_hints_matrix_fast(words_array)}
      [] tier = "numba" -> {compute_cross_hints_matrix_numba(words_array)}
      [] tier = "numba_parallel" ->
            {compute_cross_hints_matrix_numba_parallel(words_array, r) : r \in Orderings(1..N)}

\* _assert_results_equivalent of the tests: equal position sections, equal
\* sets of non-zero letters in the intersection sections
EquivalentMatrices(m1, m2) ==
    \A i, j \in 1..N :
        /\ PosSection(m1, i, j) = PosSection(m2, i, j)
        /\ NonZero(LetterSection(m1, i, j)) = NonZero(LetterSection(m2, i, j))

\* C1: the matrix a builder tier has produced agrees with the matrix of
\* every builder tier on the same pool: the position slots are identical
\* and the intersection slots hold the same set of non-zero values.
C1_BuilderTiersEquivalent ==
    pc = "built" =>
        \A tier \in BuilderTiers : \A m \in TierMatrices(tier) :
            EquivalentMatrices(hints_matrix, m)

\* a matrix of the compiled kernel whose intersection slots list two common
\* letters in another order than the set-hybrid tier does
C1_Witness ==
    /\ pc = "built"
    /\ builder = "numba"
    /\ \E i, j \in 1..N :
        /\ Cardinality(NonZero(LetterSection(hints_matrix, i, j))) >= 2
        /\ LetterSection(hints_matrix, i, j)
             # LetterSection(compute_cross_hints_matrix_fast(words_array), i, j)

\* C3: the matrix is symmetric on all 2L slots, duplicates in the pool
\* included.
C3_Symmetric ==
    pc = "built" =>
        \A i, j \in 1..N : Cell(hints_matrix, i, j) = Cell(hints_matrix, j, i)

\* an off-diagonal pair of different words with a matching position and a
\* common letter, in a pool that also holds a word twice
C3_Witness ==
    /\ pc = "built"
    /\ \E i, j \in 1..N :
        /\ i # j
        /\ words_array[i] # words_array[j]
        /\ \E s \in 1..L : hints_matrix[<<i, j, s>>] # 0
        /\ hints_matrix[<<j, i, L + 1>>] # 0
    /\ \E i, j \in 1..N : i # j /\ words_array[i] = words_array[j]

\* C4: the position section of a diagonal cell is the word itself.
C4_DiagonalIsWord ==
    pc = "built" =>
        \A i \in 1..N : PosSection(hints_matrix, i, i) = words_array[i]

\* the single-word pool, built
C4_Witness == pc = "built" /\ N = 1 /\ DOMAIN hints_matrix = {1} \X {1} \X (1..(2*L))

\* C5: position slot p of (i, j) holds Word[i][p] when the two words agree
\* at p and 0 otherwise.
C5_PositionSlots ==
    pc = "built" =>
        \A i, j \in 1..N : \A p \in 1..L :
            hints_matrix[<<i, j, p>>] =
                IF words_array[i][p] = words_array[j][p] THEN words_array[i][p] ELSE 0

\* a pair agreeing at one position and differing at another
C5_Witness ==
    /\ pc = "built"
    /\ \E i, j \in 1..N : \E p, q \in 1..L :
        /\ hints_matrix[<<i, j, p>>] = words_array[j][p]
        /\ words_array[i][q] # words_array[j][q]
        /\ hints_matrix[<<i, j, q>>] = 0

\* number of non-zero slots of a row
NonZeroCount(row) == Cardinality({s \in 1..Len(row) : row[s] # 0})

\* C6: the non-zero intersection slots of (i, j) are exactly the letters of
\* set(Word[i]) & set(Word[j]), each stored once, at most L of them.
C6_IntersectionSlots ==
    pc = "built" =>
        \A i, j \in 1..N :
            LET row == LetterSection(hints_matrix, i, j)
                common == LetterSet(words_array[i]) \cap LetterSet(words_array[j])
            IN  /\ NonZero(row) = common
                /\ NonZeroCount(row) = Cardinality(common)
                /\ NonZeroCount(row) <= L

\* a common letter that occurs twice in one of the two words, stored once
C6_Witness ==
    /\ pc = "built"
    /\ \E i, j \in 1..N : \E p, q \in 1..L :
        /\ p # q
        /\ words_array[j][p] = words_array[j][q]
        /\ words_array[i] # words_array[j]
        /\ words_array[j][p] \in LetterSet(words_array[i])
        /\ NonZeroCount(LetterSection(hints_matrix, i, j)) = 1

\* ----------------------------------------------------- evaluator claims
\* every result an evaluator tier can give for an opening on the pool and
\* the matrix of the state
TierScores(tier, openings) ==
    CASE tier = "original" -> {evaluate_opening_entropy(words_array, hints_matrix, openings)}
      [] tier = "optimized" -> {evaluate_opening_entropy_optimized(words_array, hints_matrix, openings)}
      [] tier = "numba" -> {evaluate_opening_entropy_numba(words_array, hints_matrix, openings)}
      [] tier = "numba_parallel" ->
            {evaluate_opening_entropy_numba_parallel(words_array, hints_matrix, openings, o) :
                o \in Orderings(1..N)}

\* comparison of two expected_bits values <<a, b, d>> = log2(a / b) / d;
\* with different d, x <= 0 <= y is what the literal 0.0 needs
IsInf(x) == x[2] = 0
IsZeroBits(x) == x[2] # 0 /\ x[1] = x[2]
BitsLeq(x, y) ==
    IF IsInf(y) THEN TRUE
    ELSE IF IsInf(x) THEN FALSE
    ELSE IF x[3] = y[3] THEN x[1] * y[2] <= y[1] * x[2]
    ELSE x[1] <= x[2] /\ y[2] <= y[1]
BitsEq(x, y) ==
    IF IsInf(x) \/ IsInf(y) THEN IsInf(x) /\ IsInf(y)
    ELSE IF x[3] = y[3] THEN x[1] * y[2] = y[1] * x[2]
    ELSE IsZeroBits(x) /\ IsZeroBits(y)
\* comparison of two expected_remaining fractions
RemEq(x, y) == x[1] * y[2] = y[1] * x[2]

SameOutcome(s1, s2) ==
    /\ s1.kind = s2.kind
    /\ s1.kind = "ok" =>
        /\ BitsEq(s1.expected_bits, s2.expected_bits)
        /\ RemEq(s1.expected_remaining, s2.expected_remaining)

\* C2: on the pool, matrix and opening of an evaluation, every evaluator
\* tier computes the same compatible(k) for every k and gives the same
\* expected_bits and expected_remaining as the tier that ran.
C2_EvaluatorTiersEquivalent ==
    pc = "scored" =>
        \A tier \in EvaluatorTiers :
            /\ opening_words_indices # <<>> =>
                \A k \in 1..N :
                    TierCompatible(tier, opening_words_indices, k) = compatible[k]
            /\ \A r \in TierScores(tier, opening_words_indices) : SameOutcome(score, r)

\* C7: the empty opening scores exactly expected_bits = 0.0 and
\* expected_remaining = N, in every evaluator tier and for every pool.
C7_EmptyOpening ==
    (pc = "scored" /\ opening_words_indices = <<>>) =>
        /\ score.kind = "ok"
        /\ IsZeroBits(score.expected_bits)
        /\ RemEq(score.expected_remaining, <<N, 1>>)

\* all rearrangements of a list
Permuted(seq) == {[a \in 1..Len(seq) |-> seq[p[a]]] : p \in Orderings(1..Len(seq))}

\* C8: evaluating any permutation of the opening gives the same
\* compatible(k) for every k and the same score.
C8_OrderIndependent ==
    pc = "scored" =>
        \A perm \in Permuted(opening_words_indices) :
            /\ perm # <<>> =>
                \A k \in 1..N : TierCompatible(evaluator, perm, k) = compatible[k]
            /\ \A r \in TierScores(evaluator, perm) : SameOutcome(score, r)

\* an opening of two words whose rows against some target differ in a
\* position slot, so that the merge has something to reorder
C8_Witness ==
    /\ pc = "scored"
    /\ Len(opening_words_indices) = 2
    /\ score.kind = "ok"
    /\ \E k \in 1..N :
        /\ PosSection(hints_matrix, opening_words_indices[1], k)
             # PosSection(hints_matrix, opening_words_indices[2], k)
        /\ NonZero(Cell(hints_matrix, opening_words_indices[1], k)) # {}
        /\ NonZero(Cell(hints_matrix, opening_words_indices[2], k)) # {}

\* C9: one more opening index never lowers expected_bits: for every k the
\* count under the longer opening is at most the count under the shorter.
C9_MonotonicInformation ==
    (pc = "scored" /\ opening_words_indices # <<>>) =>
        \A x \in 1..N :
            LET longer == Append(opening_words_indices, x)
            IN  /\ \A k \in 1..N :
                    TierCompatible(evaluator, longer, k) <= compatible[k]
                /\ \A r \in TierScores(evaluator, longer) :
                    /\ r.kind = "ok"
                    /\ BitsLeq(score.expected_bits, r.expected_bits)

\* an opening to which some further word adds information: a count drops
C9_Witness ==
    /\ pc = "scored"
    /\ opening_words_indices # <<>>
    /\ score.kind = "ok"
    /\ \E x \in 1..N : \E k \in 1..N :
        TierCompatible(evaluator, Append(opening_words_indices, x), k) < compatible[k]

\* C10: for N >= 1 the score is finite, expected_bits >= 0 and
\* 1 <= expected_remaining <= N; every compatible(k) lies in 1..N.
C10_ScoreBounds ==
    (pc = "scored" /\ N >= 1) =>
        /\ score.kind = "ok"
        /\ ~IsInf(score.expected_bits)
        /\ BitsLeq(ZeroBits, score.expected_bits)
        /\ score.expected_remaining[2] > 0
        /\ score.expected_remaining[1] >= score.expected_remaining[2]
        /\ score.expected_remaining[1] <= N * score.expected_remaining[2]
        /\ \A k \in DOMAIN compatible : compatible[k] \in 1..N

\* a score strictly inside the bounds: one target pinned down to itself,
\* another left with the whole pool
C10_Witness ==
    /\ pc = "scored"
    /\ opening_words_indices # <<>>
    /\ score.kind = "ok"
    /\ \E k1, k2 \in 1..N : compatible[k1] = 1 /\ compatible[k2] = N /\ N >= 2

\* ------------------------------------------------ error handling claims
\* the merged hint of target k as the reference evaluator forms it (lines
\* 254-261) and as the other tiers form it (lines 372-385)
ReferenceHint(k) == merge_hints([s \in 1..(2*L) |-> 0], hints_matrix, opening_words_indices, k)
KernelHint(k) == kernel_merge([pos \in 1..L |-> 0], 0, hints_matrix, opening_words_indices, k)

\* word w passes both tests of the merged hint of target k
SatisfiesMergedHint(w, k) ==
    /\ ReferenceHint(k).ok
    /\ pos_compatible(words_array[w], ReferenceHint(k).hint)
    /\ ({ReferenceHint(k).hint[L + s] : s \in 1..L} \ {0}) \subseteq LetterSet(words_array[w])
    /\ pos_compatible(words_array[w], KernelHint(k).pos_hint)
    /\ BitAnd(KernelHint(k).letters_mask, letters_presence(words_array, w)) = KernelHint(k).letters_mask

\* C11: after an evaluation of a selection of valid indices on a matrix
\* built from the pool, every secret k satisfies its own merged hint (each
\* merged position constraint and each merged letter), and the count the
\* evaluator computed for k is at least 1.
C11_SelfCompatible ==
    pc = "scored" =>
        \A k \in 1..N :
            /\ SatisfiesMergedHint(k, k)
            /\ k \in DOMAIN compatible => compatible[k] >= 1

\* a secret outside the opening whose merged hint constrains a position
\* and a letter, and which is not the only word satisfying it
C11_Witness ==
    /\ pc = "scored"
    /\ \E k \in 1..N :
        /\ \A n \in DOMAIN opening_words_indices : opening_words_indices[n] # k
        /\ \E pos \in 1..L : KernelHint(k).pos_hint[pos] # 0
        /\ KernelHint(k).letters_mask # 0
        /\ k \in DOMAIN compatible
        /\ compatible[k] >= 2
        /\ compatible[k] < N

\* The matrix is an ordinary writable ndarray handed back to the caller
\* (line 531), who passes it on to the evaluators (line 588): between the
\* two calls one slot is overwritten with another letter.
Tamper ==
    /\ pc = "built"
    /\ \E c \in DOMAIN hints_matrix : \E v \in Letters :
        /\ v # hints_matrix[c]
        /\ hints_matrix' = [hints_matrix EXCEPT ![c] = v]
    /\ pc' = "altered"
    /\ UNCHANGED <<words_array, builder, opening_words_indices, evaluator, compatible, score, aux>>

\* the parallel evaluator runs the loop body of the serial kernel, so the
\* altered matrix is evaluated by the reference, the vectorized and the
\* serial compiled tier
NextTampered ==
    \/ BuildNumbaParallel
    \/ Tamper
    \/ EvaluateOriginal
    \/ EvaluateOptimized
    \/ EvaluateNumba

SpecTampered == Init /\ [][NextTampered]_vars

\* some target has no compatible word under the matrix of the state
ZeroCount(openings) ==
    \E k \in 1..N : kernel_compatible(words_array, hints_matrix, openings, k) = 0

\* C12: an evaluation of a non-empty opening for which some compatible(k)
\* is 0 ends in an error, the error is of the same kind in every evaluator
\* tier, and no score with an infinite term is returned.
C12_ZeroCountRaises ==
    (pc = "scored" /\ opening_words_indices # <<>> /\ ZeroCount(opening_words_indices)) =>
        /\ score.kind \notin {"ok", "none"}
        /\ \A tier \in EvaluatorTiers : \A s \in TierScores(tier, opening_words_indices) :
                s.kind = score.kind

\* an evaluation called with an arbitrary index list; the counts are kept
\* when every index, once normalised, is a pool index
EvaluatedIndexed(tier, openings, result) ==
    /\ pc = "built"
    /\ opening_words_indices' = openings
    /\ evaluator' = tier
    /\ compatible' = IF InRange(wraparound(openings, N), N)
                      THEN Counts(tier, wraparound(openings, N)) ELSE <<>>
    /\ score' = result
    /\ pc' = "scored"
    /\ UNCHANGED <<words_array, hints_matrix, builder, aux>>

IndexOriginal ==
    /\ pc = "built"
    /\ \E openings \in AnyOpenings(N) :
        \E result \in evaluate_opening_entropy_indexed(words_array, hints_matrix, openings) :
            EvaluatedIndexed("original", openings, result)

IndexOptimized ==
    /\ pc = "built"
    /\ \E openings \in AnyOpenings(N) :
        \E result \in evaluate_opening_entropy_optimized_indexed(words_array, hints_matrix, openings) :
            EvaluatedIndexed("optimized", openings, result)

IndexNumba ==
    /\ pc = "built"
    /\ \E openings \in AnyOpenings(N) :
        \E result \in evaluate_opening_entropy_numba_indexed(words_array, hints_matrix, openings) :
            EvaluatedIndexed("numba", openings, result)

IndexNumbaParallel ==
    /\ pc = "built"
    /\ \E openings \in AnyOpenings(N) : \E k_order \in Orderings(1..N) :
        \E result \in evaluate_opening_entropy_numba_parallel_indexed(
                            words_array, hints_matrix, openings, k_order) :
            EvaluatedIndexed("numba_parallel", openings, result)

NextIndexed ==
    \/ BuildNumbaParallel
    \/ IndexOriginal
    \/ IndexOptimized
    \/ IndexNumba
    \/ IndexNumbaParallel

SpecIndexed == Init /\ [][NextIndexed]_vars

\* C13: an evaluation whose selection holds an index outside the pool
\* (too large or negative) ends in an out-of-range error, in every tier,
\* and returns no score.
C13_OutOfRangeRaises ==
    (pc = "scored" /\ ~InRange(opening_words_indices, N)) => score.kind = "IndexError"

\* the driver before it has encoded its word list
InitRaw ==
    /\ words_list \in RawLists
    /\ words_array = <<>>
    /\ L = 0
    /\ hints_matrix = <<>>
    /\ builder = "none"
    /\ opening_words_indices = <<>>
    /\ evaluator = "none"
    /\ compatible = <<>>
    /\ score = NoScore
    /\ pc = "raw"
    /\ workers = <<>>
    /\ writers = <<>>
    /\ results = <<>>
    /\ NoPlay

\* lines 528-530: upper-case every word and pack the bytes into an array;
\* np.array raises ValueError on rows of different lengths and accepts
\* every byte value
Construct ==
    /\ pc = "raw"
    /\ LET rows == [w \in 1..Len(words_list) |-> upper(words_list[w])]
       IN  IF homogeneous(rows)
           THEN /\ words_array' = rows
                /\ L' = Len(rows[1])
                /\ pc' = "pool"
                /\ score' = score
           ELSE /\ score' = Raise("ValueError")
                /\ pc' = "failed"
                /\ UNCHANGED <<words_array, L>>
    /\ UNCHANGED <<words_list, play, hints_matrix, builder, opening_words_indices, evaluator,
                   compatible, workers, writers, results>>

NextConstruct ==
    \/ Construct
    \/ BuildNumbaParallel

SpecConstruct == InitRaw /\ [][NextConstruct]_vars

\* a word with a byte outside A-Z once upper-cased, or words of different
\* lengths
Malformed(words) ==
    \/ \E w \in 1..Len(words) : \E p \in 1..Len(words[w]) : upper(words[w])[p] \notin 65..90
    \/ ~homogeneous(words)

\* C14: a word list with a byte outside A-Z or with words of different
\* lengths is rejected when the pool is constructed, with an encoding
\* error, and so never reaches the matrix build.
C14_EncodingErrorAtConstruction ==
    (pc # "raw" /\ Malformed(words_list)) => (pc = "failed" /\ score.kind = "EncodingError")

C18_Frame ==
    [][/\ words_array' = words_array
       /\ pc # "pool" => hints_matrix' = hints_matrix]_vars

\* an evaluation has merged the rows of two different opening words
C18_Witness ==
    /\ pc = "scored"
    /\ Len(opening_words_indices) = 2
    /\ opening_words_indices[1] # opening_words_indices[2]
    /\ \E k \in 1..N :
            PosSection(hints_matrix, opening_words_indices[1], k)
                # PosSection(hints_matrix, opening_words_indices[2], k)

\* words = ["cat", "bat", "car"] of test_three_letter_words
InitThreeLetterWords ==
    /\ words_list = <<<<99, 97, 116>>, <<98, 97, 116>>, <<99, 97, 114>>>>
    /\ words_array = <<>>
    /\ L = 0
    /\ hints_matrix = <<>>
    /\ builder = "none"
    /\ opening_words_indices = <<>>
    /\ evaluator = "none"
    /\ compatible = <<>>
    /\ score = NoScore
    /\ pc = "raw"
    /\ workers = <<>>
    /\ writers = <<>>
    /\ results = <<>>
    /\ NoPlay

NextThreeLetterWords ==
    \/ Construct
    \/ Next

SpecThreeLetterWords == InitThreeLetterWords /\ [][NextThreeLetterWords]_vars

\* expected_bits > 0 for a value <<a, b, d>> = log2(a / b) / d
PositiveBits(x) == IsInf(x) \/ x[1] > x[2]

\* C16: for the pool [CAT, BAT, CAR] the matrix of every builder tier has
\* HintMatrix[0,1][0:3] = [0, 65, 84] and HintMatrix[0,2][0:3] = [67, 65, 0],
\* and the opening [0] scores expected_remaining < 3 and expected_bits > 0
\* in every evaluator tier.
C16_ThreeLetterWords ==
    /\ pc \in {"built", "scored"} =>
        /\ PosSection(hints_matrix, 1, 2) = <<0, 65, 84>>
        /\ PosSection(hints_matrix, 1, 3) = <<67, 65, 0>>
    /\ (pc = "scored" /\ opening_words_indices = <<1>>) =>
        /\ score.kind = "ok"
        /\ score.expected_remaining[1] < 3 * score.expected_remaining[2]
        /\ PositiveBits(score.expected_bits)

\* the opening [0] scored on the reference matrix: counts 1, 2, 2, so
\* expected_remaining = 5/3 and expected_bits = log2(27/4)/3
C16_Witness ==
    /\ pc = "scored"
    /\ builder = "original"
    /\ opening_words_indices = <<1>>
    /\ compatible = <<1, 2, 2>>
    /\ score = Return(<<27, 4, 3>>, <<5, 3>>)

\* --------------------------------------------- parallel builder, by step
\* The prange of line 184 hands every row index i to some thread; the
\* iterations run concurrently, each through its loops over j and pos.
\* workers[i] is the position of iteration i, one loop iteration of the
\* kernel being one step.

\* range(i, N) starting at the first column
first_j_zero(i) == 1

\* for j in range(i, N): the first j of row i
first_j(i) == i

\* iteration i is past its last j
RowDone(i) == workers[i].j > N

\* compute_cross_hints_matrix_numba_parallel up to the start of the kernel
\* (lines 213-215): the matrix is allocated and the iterations are created
StartParallelBuild ==
    /\ pc = "pool"
    /\ hints_matrix' = zeros(N)
    /\ workers' = [i \in 1..N |->
                      [j |-> first_j(i), phase |-> "match", pos |-> 1,
                       presence_i |-> {}, common_idx |-> 0]]
    /\ writers' = [c \in DOMAIN zeros(N) |-> {}]
    /\ pc' = "building"
    /\ UNCHANGED <<words_array, builder, opening_words_indices, evaluator, compatible, score,
                   L, words_list, play, results>>

\* the write of one value into two slots by iteration i (the same slot
\* twice on the diagonal)
WriteBoth(i, c1, c2, value) ==
    /\ hints_matrix' = [hints_matrix EXCEPT ![c1] = value, ![c2] = value]
    /\ writers' = [writers EXCEPT ![c1] = @ \cup {i}, ![c2] = writers[c2] \cup {i}]

\* lines 187-190: one iteration of the loop over pos of part 1; after the
\* last one, presence_i is filled (lines 193-195)
WorkerMatch(i) ==
    /\ pc = "building"
    /\ ~RowDone(i)
    /\ workers[i].phase = "match"
    /\ LET j == workers[i].j
           pos == workers[i].pos
       IN  /\ IF words_array[i][pos] = words_array[j][pos]
              THEN WriteBoth(i, <<i, j, pos>>, <<j, i, pos>>, words_array[i][pos])
              ELSE UNCHANGED <<hints_matrix, writers>>
           /\ workers' = [workers EXCEPT ![i] =
                            IF pos < L THEN [@ EXCEPT !.pos = pos + 1]
                            ELSE [@ EXCEPT !.phase = "common", !.pos = 1,
                                           !.presence_i = {words_array[i][p] : p \in 1..L},
                                           !.common_idx = 0]]
    /\ UNCHANGED <<words_array, builder, opening_words_indices, evaluator, compatible, score,
                   pc, L, words_list, play, results>>

\* lines 198-204: one iteration of the loop over pos of part 2; after the
\* last one, the loop over j goes on
WorkerCommon(i) ==
    /\ pc = "building"
    /\ ~RowDone(i)
    /\ workers[i].phase = "common"
    /\ LET j == workers[i].j
           pos == workers[i].pos
           letter == words_array[j][pos]
           found == letter \in workers[i].presence_i
           slot == L + workers[i].common_idx + 1
       IN  /\ IF found
              THEN WriteBoth(i, <<i, j, slot>>, <<j, i, slot>>, letter)
              ELSE UNCHANGED <<hints_matrix, writers>>
           /\ workers' = [workers EXCEPT ![i] =
                            IF pos < L
                            THEN [@ EXCEPT !.pos = pos + 1,
                                           !.presence_i = IF found THEN @ \ {letter} ELSE @,
                                           !.common_idx = IF found THEN @ + 1 ELSE @]
                            ELSE [j |-> j + 1, phase |-> "match", pos |-> 1,
                                  presence_i |-> {}, common_idx |-> 0]]
    /\ UNCHANGED <<words_array, builder, opening_words_indices, evaluator, compatible, score,
                   pc, L, words_list, play, results>>

\* JoinParallelBuild without waiting for the iterations
JoinParallelBuild_no_barrier ==
    /\ pc = "building"
    /\ builder' = "numba_parallel"
    /\ pc' = "built"
    /\ UNCHANGED <<words_array, hints_matrix, opening_words_indices, evaluator, compatible,
                   score, aux>>

\* the kernel returns when every iteration of the prange has ended, and
\* the matrix is handed to the caller (line 216)
JoinParallelBuild ==
    /\ pc = "building"
    /\ \A i \in 1..N : RowDone(i)
    /\ builder' = "numba_parallel"
    /\ pc' = "built"
    /\ UNCHANGED <<words_array, hints_matrix, opening_words_indices, evaluator, compatible,
                   score, aux>>

NextParallelBuild ==
    \/ StartParallelBuild
    \/ \E i \in 1..N : WorkerMatch(i)
    \/ \E i \in 1..N : WorkerCommon(i)
    \/ JoinParallelBuild

\* Every iteration of the prange is run by a thread of the pool and the
\* caller waits for them: a step that stays possible is eventually taken.
SpecParallelBuild == Init /\ [][NextParallelBuild]_vars /\ WF_vars(NextParallelBuild)

\* C17: every slot (a, b, s) of the matrix is written by no iteration
\* other than the one of row min(a, b); so iteration i writes only cells
\* (i, j) and (j, i) with j >= i, and no slot has two writers.
C17_DisjointWrites ==
    \A c \in DOMAIN writers : writers[c] \subseteq {Min(c[1], c[2])}

\* the build has ended with a cell below the diagonal and its mirror both
\* written by the iteration of the smaller index, and a diagonal cell by
\* its own
C17_Witness ==
    /\ pc = "built"
    /\ \E a, b \in 1..N : \E s \in 1..(2*L) :
        /\ a < b
        /\ writers[<<b, a, s>>] = {a}
        /\ writers[<<a, b, s>>] = {a}
        /\ writers[<<b, b, s>>] = {b}

\* C19: whatever the interleaving of the iterations, the parallel build
\* ends, and the matrix it hands over is the matrix of the serial
\* compiled kernel.
C19_CompletesAsSerial ==
    /\ <>(pc = "built")
    /\ [](pc = "built" => hints_matrix = compute_cross_hints_matrix_numba(words_array))

\* a build of three rows has ended with every iteration past its last j
C19_Witness ==
    /\ pc = "built"
    /\ N = MaxN
    /\ \A i \in 1..N : RowDone(i)
    /\ hints_matrix = compute_cross_hints_matrix_numba(words_array)
    /\ \E i, j \in 1..N : i # j /\ NonZero(Cell(hints_matrix, i, j)) # {}

\* ------------------------------------------- parallel evaluator, by step
\* The prange of line 449 hands every target k to some thread.  Iteration
\* k merges and counts on its own locals, then stores into the results
\* array: workers[k] is its position, results[k] = <<entropy, count>> the
\* row (k, 0), (k, 1), the entropy -log2(count / N) being kept as
\* <<N, count>> and the initial 0.0 as <<1, 1>>.

\* every iteration storing into row 0 of results
result_row_shared(k) == 1

\* results[k, ...]: the row iteration k stores into
result_row(k) == k

\* evaluate_opening_entropy_numba_parallel up to the start of the kernel
\* (lines 488-504); the empty opening returns at line 491
StartParallelEvaluate ==
    /\ pc = "built"
    /\ \E openings \in Openings(N) :
        /\ opening_words_indices' = openings
        /\ evaluator' = "numba_parallel"
        /\ IF Len(openings) = 0
           THEN /\ score' = Return(ZeroBits, <<N, 1>>)
                /\ pc' = "scored"
                /\ UNCHANGED <<workers, writers, results>>
           ELSE /\ results' = [k \in 1..N |-> <<<<1, 1>>, 0>>]
                /\ workers' = [k \in 1..N |-> [phase |-> "count", compatible_count |-> 0]]
                /\ writers' = [c \in (1..N) \X (1..2) |-> {}]
                /\ pc' = "evaluating"
                /\ score' = score
    /\ UNCHANGED <<words_array, hints_matrix, builder, compatible, L, words_list, play>>

\* lines 450-475: merge the hints of target k and count the compatible
\* words, all in locals of the iteration
WorkerCount(k) ==
    /\ pc = "evaluating"
    /\ workers[k].phase = "count"
    /\ workers' = [workers EXCEPT ![k] =
                      [phase |-> "entropy",
                       compatible_count |->
                          kernel_compatible(words_array, hints_matrix, opening_words_indices, k)]]
    /\ UNCHANGED <<words_array, hints_matrix, builder, opening_words_indices, evaluator,
                   compatible, score, pc, L, words_list, play, writers, results>>

\* lines 477-478: p_k = compatible_count / N; results[k, 0] = -np.log2(p_k)
WorkerEntropy(k) ==
    /\ pc = "evaluating"
    /\ workers[k].phase = "entropy"
    /\ results' = [results EXCEPT ![result_row(k)][1] = <<N, workers[k].compatible_count>>]
    /\ writers' = [writers EXCEPT ![<<result_row(k), 1>>] = @ \cup {k}]
    /\ workers' = [workers EXCEPT ![k].phase = "remaining"]
    /\ UNCHANGED <<words_array, hints_matrix, builder, opening_words_indices, evaluator,
                   compatible, score, pc, L, words_list, play>>

\* line 479: results[k, 1] = compatible_count
WorkerRemaining(k) ==
    /\ pc = "evaluating"
    /\ workers[k].phase = "remaining"
    /\ results' = [results EXCEPT ![result_row(k)][2] = workers[k].compatible_count]
    /\ writers' = [writers EXCEPT ![<<result_row(k), 2>>] = @ \cup {k}]
    /\ workers' = [workers EXCEPT ![k].phase = "done"]
    /\ UNCHANGED <<words_array, hints_matrix, builder, opening_words_indices, evaluator,
                   compatible, score, pc, L, words_list, play>>

\* lines 507-510: the kernel has returned, so every iteration has ended;
\* the columns of results are summed and divided by N
JoinParallelEvaluate ==
    /\ pc = "evaluating"
    /\ \A k \in 1..N : workers[k].phase = "done"
    /\ compatible' = [k \in 1..N |-> results[k][2]]
    /\ score' = Return(<<ProdSeq([k \in 1..N |-> results[k][1][1]]),
                         ProdSeq([k \in 1..N |-> results[k][1][2]]), N>>,
                       <<SumSeq([k \in 1..N |-> results[k][2]]), N>>)
    /\ pc' = "scored"
    /\ UNCHANGED <<words_array, hints_matrix, builder, opening_words_indices, evaluator, aux>>

NextParallelEvaluate ==
    \/ BuildNumbaParallel
    \/ StartParallelEvaluate
    \/ \E k \in 1..N : WorkerCount(k)
    \/ \E k \in 1..N : WorkerEntropy(k)
    \/ \E k \in 1..N : WorkerRemaining(k)
    \/ JoinParallelEvaluate

SpecParallelEvaluate == Init /\ [][NextParallelEvaluate]_vars

\* C20: in the parallel evaluator iteration k stores only into
\* results[k, 0] and results[k, 1], so no slot of results has two
\* writers; a score exists only once every iteration has ended, and it
\* is, for every interleaving, the score of the serial compiled kernel.
C20_ParallelEvaluator ==
    /\ \A c \in DOMAIN writers : writers[c] \subseteq {c[1]}
    /\ (pc = "scored" /\ opening_words_indices # <<>>) =>
        /\ \A k \in 1..N : workers[k].phase = "done"
        /\ SameOutcome(score, evaluate_opening_entropy_numba(
                                  words_array, hints_matrix, opening_words_indices))

\* three iterations have each stored their two slots, with different
\* counts, and the sums are taken
C20_Witness ==
    /\ pc = "scored"
    /\ N = MaxN
    /\ opening_words_indices # <<>>
    /\ \A k \in 1..N : writers[<<k, 1>>] = {k} /\ writers[<<k, 2>>] = {k}
    /\ \E k1, k2 \in 1..N : results[k1][2] # results[k2][2]
    /\ score.kind = "ok"

\* -------------------------------------------- compatibility, as defined
\* the merged position vector of target k: elementwise maximum over the
\* selected rows hint_matrix[i, k][0:L]
MergedPositionVector(k) ==
    [p \in 1..L |->
        LET values == {0} \cup {hints_matrix[<<opening_words_indices[n], k, p>>] :
                                    n \in DOMAIN opening_words_indices}
        IN  CHOOSE v \in values : \A u \in values : u <= v]

\* the merged intersection set of target k: the non-zero letters of the
\* selected rows hint_matrix[i, k][L:2L]
MergedLetterSet(k) ==
    UNION {NonZero(LetterSection(hints_matrix, opening_words_indices[n], k)) :
                n \in DOMAIN opening_words_indices}

\* the pool words compatible with target k under the opening of the state
CompatibleWords(k) ==
    {w \in 1..N :
        /\ \A p \in 1..L : MergedPositionVector(k)[p] # 0 =>
                                words_array[w][p] = MergedPositionVector(k)[p]
        /\ MergedLetterSet(k) \subseteq LetterSet(words_array[w])}

\* C21: the count every evaluator tier computes for secret k is the number
\* of pool words w that (a) agree with the merged position vector wherever
\* it is non-zero and (b) contain every letter of the merged intersection
\* set; expected_remaining is the sum of these counts divided by N.
C21_CompatibleCount ==
    pc = "scored" =>
        /\ \A k \in DOMAIN compatible : compatible[k] = Cardinality(CompatibleWords(k))
        /\ opening_words_indices # <<>> =>
                \A tier \in EvaluatorTiers : \A k \in 1..N :
                    TierCompatible(tier, opening_words_indices, k) = Cardinality(CompatibleWords(k))
        /\ score.kind = "ok" =>
                RemEq(score.expected_remaining,
                      <<SumSeq([k \in 1..N |-> Cardinality(CompatibleWords(k))]), N>>)

\* a secret for which the position test alone and the letter test alone
\* each admit a word that the two together exclude
C21_Witness ==
    /\ pc = "scored"
    /\ score.kind = "ok"
    /\ \E k \in 1..N : \E w1, w2 \in 1..N :
        /\ w1 \notin CompatibleWords(k)
        /\ w2 \notin CompatibleWords(k)
        /\ pos_compatible(words_array[w1], MergedPositionVector(k))
        /\ MergedLetterSet(k) \subseteq LetterSet(words_array[w2])

\* comparison of two expected_remaining fractions
RemLeq(x, y) == x[1] * y[2] <= y[1] * x[2]

\* C22: adding an opening index to the selection of an evaluation never
\* increases expected_remaining: for every secret k the words compatible
\* under the larger selection are among those under the smaller one.
C22_MoreOpeningsFewerWords ==
    (pc = "scored" /\ score.kind = "ok") =>
        \A x \in 1..N :
            LET larger == Append(opening_words_indices, x)
            IN  /\ \A k \in 1..N :
                    /\ kernel_compatibles(words_array, hints_matrix, larger, k)
                         \subseteq kernel_compatibles(words_array, hints_matrix, opening_words_indices, k)
                    /\ original_compatibles(words_array, hints_matrix, larger, k)
                         \subseteq original_compatibles(words_array, hints_matrix, opening_words_indices, k)
                /\ \A r \in TierScores(evaluator, larger) :
                    /\ r.kind = "ok"
                    /\ RemLeq(r.expected_remaining, score.expected_remaining)

\* a further opening word removes a word from the compatible set of some
\* secret and lowers expected_remaining
C22_Witness ==
    /\ pc = "scored"
    /\ score.kind = "ok"
    /\ opening_words_indices # <<>>
    /\ \E x \in 1..N : \E k \in 1..N :
        /\ kernel_compatibles(words_array, hints_matrix, Append(opening_words_indices, x), k)
             # kernel_compatibles(words_array, hints_matrix, opening_words_indices, k)
        /\ \A r \in TierScores(evaluator, Append(opening_words_indices, x)) :
             ~RemLeq(score.expected_remaining, r.expected_remaining)

\* a selection without its repetitions, first occurrences kept
RECURSIVE Deduplicated(_)
Deduplicated(seq) ==
    IF seq = <<>> THEN <<>>
    ELSE LET init == Deduplicated(SubSeq(seq, 1, Len(seq) - 1))
             last == seq[Len(seq)]
         IN  IF \E n \in DOMAIN init : init[n] = last THEN init ELSE Append(init, last)

\* C23: an evaluation of a selection that repeats an index returns a
\* score, and its compatible(k) counts and its score are exactly those of
\* the selection with the repetitions removed.
C23_RepeatedIndices ==
    (pc = "scored" /\ Len(Deduplicated(opening_words_indices)) < Len(opening_words_indices)) =>
        /\ score.kind = "ok"
        /\ \A k \in 1..N :
                compatible[k] = TierCompatible(evaluator, Deduplicated(opening_words_indices), k)
        /\ \A r \in TierScores(evaluator, Deduplicated(opening_words_indices)) :
                SameOutcome(r, score)

\* the vectorized evaluator has scored a repeated index whose row carries
\* a position and a letter constraint for some other secret
C23_Witness ==
    /\ pc = "scored"
    /\ evaluator = "optimized"
    /\ Len(opening_words_indices) = 2
    /\ opening_words_indices[1] = opening_words_indices[2]
    /\ \E k \in 1..N :
        /\ k # opening_words_indices[1]
        /\ NonZero(PosSection(hints_matrix, opening_words_indices[1], k)) # {}
        /\ compatible[k] < N

\* C29: the hint of secret k comes from Word[k] alone.  Every position
\* slot hint_matrix[i, k][p] is 0 or Word[k][p], so the elementwise
\* maximum never mixes two letters; the merged letter set holds letters of
\* Word[k] only, at most L of them, and the reference evaluator's packing
\* of the set into L slots succeeds.
C29_HintFromSecretAlone ==
    /\ pc \in {"built", "scored"} =>
        \A i, k \in 1..N : \A p \in 1..L :
            hints_matrix[<<i, k, p>>] \in {0, words_array[k][p]}
    /\ pc = "scored" =>
        \A k \in 1..N :
            /\ \A p \in 1..L : MergedPositionVector(k)[p] \in {0, words_array[k][p]}
            /\ MergedLetterSet(k) \subseteq LetterSet(words_array[k])
            /\ Cardinality(MergedLetterSet(k)) <= L
            /\ ReferenceHint(k).ok
            /\ NonZero(SubSeq(ReferenceHint(k).hint, L + 1, 2 * L)) = MergedLetterSet(k)

\* two different opening words each contribute a position and a letter
\* to the hint of a third secret
C29_Witness ==
    /\ pc = "scored"
    /\ Len(opening_words_indices) = 2
    /\ \E k \in 1..N :
        /\ k # opening_words_indices[1] /\ k # opening_words_indices[2]
        /\ PosSection(hints_matrix, opening_words_indices[1], k)
             # PosSection(hints_matrix, opening_words_indices[2], k)
        /\ LetterSection(hints_matrix, opening_words_indices[1], k)
             # LetterSection(hints_matrix, opening_words_indices[2], k)
        /\ \A p \in 1..L : MergedPositionVector(k)[p] # 0
        /\ Cardinality(MergedLetterSet(k)) = L

\* The intersection slots of the cells of one row are rearranged: slot s
\* receives the value of slot perm[s], zeros included.  compatible(k) reads
\* the cells [i, k] of the opening words i only, so rearranging row by row
\* gives every target every mix of rearranged and untouched cells.
Permute ==
    /\ pc \in {"built", "altered"}
    /\ \E i \in 1..N : \E perm \in Orderings(1..L) :
        /\ hints_matrix' =
            [c \in DOMAIN hints_matrix |->
                IF c[1] = i /\ c[3] > L
                THEN hints_matrix[<<i, c[2], L + perm[c[3] - L]>>]
                ELSE hints_matrix[c]]
        /\ hints_matrix' # hints_matrix
    /\ pc' = "altered"
    /\ UNCHANGED <<words_array, builder, opening_words_indices, evaluator, compatible, score, aux>>

\* the builder whose slots are in ascending order builds; every order
\* another builder can store is one of the rearrangements
NextPermuted ==
    \/ BuildOptimized
    \/ Permute
    \/ EvaluateOriginal
    \/ EvaluateOptimized
    \/ EvaluateNumba
    \/ EvaluateNumbaParallel

\* pools of distinct words over the given letters, in dictionary order
WordKey(word) == SumSeq([p \in 1..WordLength |-> word[p] * 256^(WordLength - p)])
SortedPools(letters) ==
    {pool \in UNION {[1..n -> [1..WordLength -> letters]] : n \in 0..MaxN} :
        \A a, b \in 1..Len(pool) : a < b => WordKey(pool[a]) < WordKey(pool[b])}

\* the state after the pool is loaded, the pool drawn from the given set
InitFrom(pools) ==
    /\ words_array \in pools
    /\ hints_matrix = <<>>
    /\ builder = "none"
    /\ opening_words_indices = <<>>
    /\ evaluator = "none"
    /\ compatible = <<>>
    /\ score = NoScore
    /\ pc = "pool"
    /\ L = WordLength
    /\ words_list = words_array
    /\ workers = <<>>
    /\ writers = <<>>
    /\ results = <<>>
    /\ NoPlay

\* Pools over one letter more than Letters: with a letter to spare, a cell
\* can hold one common letter that matches at no position, so that a zero
\* slot sits beside the only constraint of the cell.
PermutedLetters == OrdA .. (OrdA + NumLetters)
InitPermuted == InitFrom(SortedPools(PermutedLetters))

SpecPermuted == InitPermuted /\ [][NextPermuted]_vars

\* the counts of an evaluator tier on a given matrix
CountsOn(tier, hm, openings) ==
    IF tier # "original" /\ openings = <<>> THEN <<>>
    ELSE [k \in 1..N |->
            CASE tier = "original" -> original_compatible(words_array, hm, openings, k)
              [] tier = "optimized" -> optimized_compatible(words_array, hm, openings, k)
              [] OTHER -> kernel_compatible(words_array, hm, openings, k)]

\* the scores an evaluator tier can return on a given matrix
ScoresOn(tier, hm, openings) ==
    CASE tier = "original" -> {evaluate_opening_entropy(words_array, hm, openings)}
      [] tier = "optimized" -> {evaluate_opening_entropy_optimized(words_array, hm, openings)}
      [] tier = "numba" -> {evaluate_opening_entropy_numba(words_array, hm, openings)}
      [] tier = "numba_parallel" ->
            {evaluate_opening_entropy_numba_parallel(words_array, hm, openings, o) :
                o \in Orderings(1..N)}

\* C24: an evaluator tier reads the intersection slots of a cell as a set.
\* The counts and the score of an evaluation on a matrix whose intersection
\* slots were rearranged, zeros in any slot, are the counts and the score
\* the same tier gives on the matrix as a builder stores it, whichever
\* builder tier stored it.
C24_SlotsReadAsSet ==
    pc = "scored" =>
        LET hm == compute_cross_hints_matrix_optimized(words_array)
        IN  /\ EquivalentMatrices(hm, hints_matrix)
            /\ compatible = CountsOn(evaluator, hm, opening_words_indices)
            /\ \A r \in ScoresOn(evaluator, hm, opening_words_indices) : SameOutcome(r, score)
            /\ \A tier \in EvaluatorTiers :
                CountsOn(tier, hm, opening_words_indices)
                    = CountsOn(tier, hints_matrix, opening_words_indices)

\* an evaluation has read a cell of an opening word whose first
\* intersection slot is zero and whose second holds the one common letter,
\* no position matches, and the letter excludes a word of the pool
C24_Witness ==
    /\ pc = "scored"
    /\ score.kind = "ok"
    /\ Len(opening_words_indices) = 1
    /\ \E k \in 1..N :
        /\ compatible[k] < N
        /\ hints_matrix[<<opening_words_indices[1], k, L + 1>>] = 0
        /\ hints_matrix[<<opening_words_indices[1], k, L + 2>>] # 0
        /\ PosSection(hints_matrix, opening_words_indices[1], k) = [p \in 1..L |-> 0]

\* ------------------------------------------------- the letter bitmasks
\* Words over both ends of the alphabet A-Z: the lowest and the highest
\* bit index are used, and bit indices that agree modulo 8 or 16 occur.
MaskLetters == {OrdA, OrdA + 1, OrdZ - 1, OrdZ}
InitMasks == InitFrom(SortedPools(MaskLetters))

NextMasks ==
    \/ BuildNumba
    \/ EvaluateOptimized
    \/ EvaluateNumba

SpecMasks == InitMasks /\ [][NextMasks]_vars

\* C30: for words over A-Z the bit index letter - 65 lies in 0..25, so the
\* presence mask of a word and the merged letters mask of a target are
\* below 2^26 and fit the 32 bits of the mask; two distinct letters have
\* distinct bits; and (mask & letters_presence[w]) == mask holds exactly
\* when every merged letter occurs in word w.
C30_LetterMasks ==
    /\ pc = "built" =>
        /\ \A a \in OrdA..OrdZ : a - OrdA \in 0..25 /\ letter_bit(a) < 2^26
        /\ \A a, b \in OrdA..OrdZ : a # b => letter_bit(a) # letter_bit(b)
        /\ \A w \in 1..N :
            /\ letters_presence(words_array, w) < 2^26
            /\ \A a \in OrdA..OrdZ :
                BitAnd(letter_bit(a), letters_presence(words_array, w)) = letter_bit(a)
                    <=> a \in LetterSet(words_array[w])
    /\ (pc = "scored" /\ opening_words_indices # <<>>) =>
        \A k \in 1..N :
            LET mask == kernel_merge([pos \in 1..L |-> 0], 0, hints_matrix,
                                     opening_words_indices, k).letters_mask
            IN  /\ mask < 2^26
                /\ mask = merged_letters_mask(0, hints_matrix, opening_words_indices, k)
                /\ \A w \in 1..N :
                    BitAnd(mask, letters_presence(words_array, w)) = mask
                        <=> MergedLetterSet(k) \subseteq LetterSet(words_array[w])

\* the merged mask of a target holds bit 0 and bit 25, one word of the
\* pool has both letters and another lacks one of them
C30_Witness ==
    /\ pc = "scored"
    /\ opening_words_indices # <<>>
    /\ \E k \in 1..N : \E w1, w2 \in 1..N :
        /\ MergedLetterSet(k) = {OrdA, OrdZ}
        /\ MergedLetterSet(k) \subseteq LetterSet(words_array[w1])
        /\ ~(MergedLetterSet(k) \subseteq LetterSet(words_array[w2]))
        /\ w1 # k

\* ------------------------------------------------------ playing Wordle
\* the opening solver is not running
NoSolver ==
    /\ words_array = <<>>
    /\ hints_matrix = <<>>
    /\ builder = "none"
    /\ opening_words_indices = <<>>
    /\ evaluator = "none"
    /\ compatible = <<>>
    /\ score = NoScore
    /\ pc = "pool"
    /\ L = WordLength
    /\ words_list = <<>>
    /\ workers = <<>>
    /\ writers = <<>>
    /\ results = <<>>

solver == <<words_array, hints_matrix, builder, opening_words_indices, evaluator, compatible,
            score, pc, L, words_list, workers, writers, results>>

\* lines 13-48: a game is constructed from a list of distinct words of one
\* length; the secret is the word at the index the hash of date and key
\* gives, which can be any index of the list
Games ==
    UNION {{[word_list |-> list, secret |-> list[h]] : h \in 1..Len(list)} :
                list \in SortedPools(Letters) \ {<<>>}}

\* what a player types: a word in upper case, in lower case, with blanks
\* around it, a word one letter short, a word with a digit in it
GuessInputs ==
    Words
    \cup {[p \in 1..WordLength |-> word[p] + 32] : word \in Words}
    \cup {<<32>> \o word \o <<32>> : word \in Words}
    \cup {SubSeq(word, 1, WordLength - 1) : word \in Words}
    \cup {[word EXCEPT ![1] = 49] : word \in Words}

InitGame ==
    /\ NoSolver
    /\ game \in Games
    /\ game_state = <<>>
    /\ outcome = [kind |-> "constructed", guess |-> <<>>]
    /\ game_cache = <<>>
    /\ served = <<>>

\* cli.game_state = game.create_game_state()
CreateGameState ==
    /\ outcome.kind = "constructed"
    /\ game_state' = create_game_state(game)
    /\ outcome' = [kind |-> "created", guess |-> <<>>]
    /\ UNCHANGED <<game, game_cache, served, solver>>

\* cli.game_state = game.check_guess(guess, cli.game_state): the player
\* holds the returned state, or the state passed when the call raises
CheckGuess ==
    /\ outcome.kind # "constructed"
    /\ \E guess \in GuessInputs :
        LET call == check_guess(game, guess, game_state)
        IN  /\ outcome' = [kind |-> call.kind, guess |-> guess]
            /\ game_state' = IF call.kind = "returned" THEN call.state ELSE call.passed
    /\ UNCHANGED <<game, game_cache, served, solver>>

NextGame ==
    \/ CreateGameState
    \/ CheckGuess

SpecGame == InitGame /\ [][NextGame]_vars

Refused(guess, state) ==
    LET normalised == strip(upper(guess))
    IN  \/ state.game_over
        \/ Len(normalised) # Len(game.secret)
        \/ ~isalpha(normalised)
        \/ normalised \notin {game.word_list[w] : w \in DOMAIN game.word_list}

Requests ==
    ({0} \X (1..MaxDate))
    \cup ((1..(NumGames - 1)) \X (1..MaxOtherDate))
    \cup {<<NumGames, 1>>}

\* lines 21-47: the server after construction, the cache empty
InitServer ==
    /\ NoSolver
    /\ game = <<>>
    /\ game_state = <<>>
    /\ outcome = <<>>
    /\ game_cache = <<>>
    /\ served = [kind |-> "none", fresh |-> FALSE, game_id |-> 0, date |-> 0, game |-> <<>>]

\* game = self.get_game_for_date(game_id, date) in a route: the whole
\* method runs without an await between its steps
GetGameForDate ==
    \E request \in Requests :
        LET call == get_game_for_date(game_cache, request[1], request[2])
        IN  /\ game_cache' = call.cache
            /\ served' = [kind |-> call.kind, fresh |-> call.fresh,
                          game_id |-> request[1], date |-> request[2], game |-> call.game]
            /\ UNCHANGED <<game, game_state, outcome, solver>>

NextServer == GetGameForDate

SpecServer == InitServer /\ [][NextServer]_vars

\* the dates of a game in a cache
CachedDates(cache, game_id) == {key[2] : key \in {k \in DOMAIN cache : k[1] = game_id}}

\* C27: every call for a game the server has returns the instance of the
\* requested game and date, which is then the entry of the cache, even
\* when seven other dates of the game are cached and the requested date is
\* older than all of them; a call for a date in the cache makes no new
\* instance and returns the cached one.
C27_ReturnsRequestedGame ==
    [][served'.game_id \in 0..(NumGames - 1) =>
        /\ served'.kind = "returned"
        /\ served'.game = factory(served'.game_id, served'.date)
        /\ <<served'.game_id, served'.date>> \in DOMAIN game_cache'
        /\ game_cache'[<<served'.game_id, served'.date>>] = served'.game
        /\ <<served'.game_id, served'.date>> \in DOMAIN game_cache =>
            /\ ~served'.fresh
            /\ served'.game = game_cache[<<served'.game_id, served'.date>>]]_vars

\* C28: the cache never holds more than 7 dates of one game, and a call
\* for one game removes no entry of another game.
C28_CachePerGame ==
    /\ [](\A game_id \in 0..(NumGames - 1) :
            Cardinality(CachedDates(game_cache, game_id)) <= CacheLimit)
    /\ [][\A key \in DOMAIN game_cache :
            key[1] # served'.game_id =>
                key \in DOMAIN game_cache' /\ game_cache'[key] = game_cache[key]]_vars

\* a call for the first game has evicted a date of that game while the
\* other game holds its dates
C28_Witness ==
    /\ served.kind = "returned"
    /\ served.fresh
    /\ served.game_id = 0
    /\ Cardinality(CachedDates(game_cache, 0)) = CacheLimit
    /\ \E date \in 1..MaxDate : date < served.date /\ date \notin CachedDates(game_cache, 0)
    /\ Cardinality(CachedDates(game_cache, 1)) = MaxOtherDate
====
